---- MODULE Spec2Model ----
(***************************************************************************)
(* A model of build.rs, the build script that resolves the FFmpeg include  *)
(* and link paths per target OS, fetches the Intel Media SDK sources,      *)
(* locates the headers and writes bindings.rs.                             *)
(*                                                                         *)
(* Strings are sequences.  Macro names are sequences of characters, so     *)
(* that starts_with is a real prefix test.  Paths are sequences of path    *)
(* tokens: a separator ("/" or "\\"), a drive ("C:"), a line feed ("\n")   *)
(* or a name holding no separator.  A 64-bit integer is four 16-bit limbs  *)
(* in two's complement, most significant first.                            *)
(***************************************************************************)
EXTENDS Integers, Sequences, FiniteSets, TLC

VARIABLES
    \* ---- Callbacks::int_macro, applied to one macro
    m_name, m_value, m_kind,
    \* ---- search_include, applied to one candidate list and header
    l_dirs, l_header, l_result,
    \* ---- the host: target OS, filesystem, environment, pkg-config database
    os, fs, pkgdb,
    \* ---- one run of main
    pc, run, is_debug, includes, librarys, include_prefix, lib_prefix, probe_i,
    stdout, clang_includes, headers,
    \* ---- what happened: the failed step, the steps done and the commands run in
    \* this run, the filesystem at its start, what the two existence checks saw,
    \* and across runs when media-sdk appeared and when the archive was resolved
    err, done_steps, execlog, fs_at_start, media_sdk_at_check, ffmpeg_at_check,
    hist

macro_vars == <<m_name, m_value, m_kind>>
locate_vars == <<l_dirs, l_header, l_result>>
host_vars == <<os, fs, pkgdb>>
run_vars == <<pc, run, is_debug, includes, librarys, include_prefix, lib_prefix,
              probe_i, stdout, clang_includes, headers, err, done_steps, execlog, fs_at_start,
              media_sdk_at_check, ffmpeg_at_check, hist>>
vars == <<macro_vars, locate_vars, host_vars, run_vars>>

----------------------------------------------------------------------------
(* Strings *)

\* str::starts_with
starts_with(s, p) ==
    /\ Len(p) <= Len(s)
    /\ \A i \in 1..Len(p) : s[i] = p[i]

Last(s) == s[Len(s)]

----------------------------------------------------------------------------
(* 64-bit integers: <<w3, w2, w1, w0>>, each limb in 0..65535 *)

LimbMod == 65536
LimbSign == 32768

\* i32::MIN as i64 : 0xFFFF_FFFF_8000_0000
I32_MIN == <<LimbMod - 1, LimbMod - 1, LimbSign, 0>>
\* i32::MAX as i64 : 0x0000_0000_7FFF_FFFF
I32_MAX == <<0, 0, LimbSign - 1, LimbMod - 1>>

\* the limbs of a as an unsigned key that orders like the signed value
SignedKey(a) == <<(a[1] + LimbSign) % LimbMod, a[2], a[3], a[4]>>

RECURSIVE LexLe(_, _, _)
LexLe(a, b, i) ==
    IF i > Len(a) THEN TRUE
    ELSE IF a[i] < b[i] THEN TRUE
    ELSE IF a[i] > b[i] THEN FALSE
    ELSE LexLe(a, b, i + 1)

\* a <= b on i64
I64Le(a, b) == LexLe(SignedKey(a), SignedKey(b), 1)

\* value >= i32::MIN as i64 && value <= i32::MAX as i64
FitsI32(value) == I64Le(I32_MIN, value) /\ I64Le(value, I32_MAX)

----------------------------------------------------------------------------
(* Callbacks::int_macro *)

ch_layout_prefix == <<"A","V","_","C","H","_">>
codec_cap_prefix == <<"A","V","_","C","O","D","E","C","_","C","A","P","_">>
codec_flag_prefix == <<"A","V","_","C","O","D","E","C","_","F","L","A","G","_">>
error_max_size == <<"A","V","_","E","R","R","O","R","_","M","A","X","_",
                    "S","T","R","I","N","G","_","S","I","Z","E">>

\* a plausible slip: the generic range check moved in front of the name rules
int_macro_range_first(name, value) ==
    IF FitsI32(value) THEN "Int"
    ELSE IF starts_with(name, ch_layout_prefix) THEN "ULongLong"
    ELSE IF name = error_max_size THEN "usize"
    ELSE "None"

\* a plausible slip: the codec rule without its range condition
int_macro_codec_any(name, value) ==
    IF starts_with(name, ch_layout_prefix) THEN "ULongLong"
    ELSE IF starts_with(name, codec_cap_prefix)
            \/ starts_with(name, codec_flag_prefix) THEN "UInt"
    ELSE IF name = error_max_size THEN "usize"
    ELSE IF FitsI32(value) THEN "Int"
    ELSE "None"

\* a plausible slip: the maximum-string-size rule after the range check
int_macro_size_late(name, value) ==
    IF starts_with(name, ch_layout_prefix) THEN "ULongLong"
    ELSE IF FitsI32(value)
            /\ (starts_with(name, codec_cap_prefix)
                \/ starts_with(name, codec_flag_prefix)) THEN "UInt"
    ELSE IF FitsI32(value) THEN "Int"
    ELSE IF name = error_max_size THEN "usize"
    ELSE "None"

\* Option<IntKind>: "ULongLong", "UInt", "usize" (Custom), "Int", "None"
int_macro(name, value) ==
    IF starts_with(name, ch_layout_prefix) THEN "ULongLong"
    ELSE IF FitsI32(value)
            /\ (starts_with(name, codec_cap_prefix)
                \/ starts_with(name, codec_flag_prefix)) THEN "UInt"
    ELSE IF name = error_max_size THEN "usize"
    ELSE IF FitsI32(value) THEN "Int"
    ELSE "None"

\* macro names the translation pass may hand to the callback
NameHeads ==
    { <<>>, <<"A","V","_">>, <<"A","V","_","C","H">>, ch_layout_prefix,
      <<"X">> \o ch_layout_prefix,
      <<"A","V","_","C","O","D","E","C","_">>,
      <<"A","V","_","C","O","D","E","C","_","C","A","P">>,
      codec_cap_prefix, codec_flag_prefix,
      <<"A","V","_","C","O","D","E","C","_","F","L","A","G">>,
      <<"A","V","_","E","R","R","O","R","_">>, error_max_size }

NameTails ==
    { <<>>, <<"_">>, <<"2">>,
      <<"L","A","Y","O","U","T","_","S","T","E","R","E","O">>,
      <<"T","R","U","N","C","A","T","E","D">>,
      <<"M","A","X","_","S","T","R","I","N","G","_","S","I","Z","E">> }

MacroNames == { h \o t : h \in NameHeads, t \in NameTails }

\* limb values at and around the sign and range boundaries
LimbSamples == {0, 3, 8, LimbSign - 1, LimbSign, LimbMod - 1}

I64Samples ==
    { <<a, b, c, d>> : a \in {0, LimbSign - 1, LimbSign, LimbMod - 1},
                       b \in {0, LimbMod - 1},
                       c \in {0, LimbSign - 1, LimbSign, LimbMod - 1},
                       d \in LimbSamples }

\* the translation pass calls int_macro(name, value) for one macro
IntMacro ==
    /\ m_kind = "pending"
    /\ m_kind' = int_macro(m_name, m_value)
    /\ UNCHANGED <<m_name, m_value, locate_vars, host_vars, run_vars>>

----------------------------------------------------------------------------
(* Paths *)

IsSep(c) == IF os = "windows" THEN c \in {"/", "\\"} ELSE c = "/"

\* std::path::MAIN_SEPARATOR
MainSep == IF os = "windows" THEN "\\" ELSE "/"

\* a drive prefix, Windows only
HasPrefix(p) == os = "windows" /\ Len(p) > 0 /\ p[1] = "C:"

PrefixLen(p) == IF HasPrefix(p) THEN 1 ELSE 0

HasRoot(p) == Len(p) > PrefixLen(p) /\ IsSep(p[PrefixLen(p) + 1])

IsAbsolute(p) == IF os = "windows" THEN HasPrefix(p) /\ HasRoot(p) ELSE HasRoot(p)

\* join: Path::new(root).join(next).to_str(), which cannot fail on two &str
join(root, next) ==
    LET need_sep == Len(root) > 0 /\ ~IsSep(Last(root))
                    /\ ~(HasPrefix(root) /\ Len(root) = 1)
    IN  IF IsAbsolute(next) \/ HasPrefix(next) THEN next
        ELSE IF HasRoot(next) THEN SubSeq(root, 1, PrefixLen(root)) \o next
        ELSE IF need_sep THEN root \o <<MainSep>> \o next
        ELSE root \o next

\* a plausible slip: the existence test inverted
is_exsit_inverted(dir) == dir \notin DOMAIN fs

\* is_exsit: fs::metadata(dir).is_ok(); fs maps each existing path to its content
is_exsit(dir) == dir \in DOMAIN fs

----------------------------------------------------------------------------
(* search_include *)

\* format!("/usr/include/{}", header)
UsrInclude(header) == <<"/", "usr", "/", "include", "/">> \o header

\* a plausible slip: the scan keeps going and the last match wins
RECURSIVE search_include_last(_, _)
search_include_last(prefix, header) ==
    IF prefix = <<>> THEN UsrInclude(header)
    ELSE LET n == Len(prefix)
             include == join(prefix[n], header)
         IN  IF include \in DOMAIN fs THEN include
             ELSE search_include_last(SubSeq(prefix, 1, n - 1), header)

\* search_include: the for loop over include_prefix, then the fallback
RECURSIVE search_include(_, _)
search_include(prefix, header) ==
    IF prefix = <<>> THEN UsrInclude(header)
    ELSE LET include == join(Head(prefix), header)
         IN  IF include \in DOMAIN fs THEN include
             ELSE search_include(Tail(prefix), header)

\* the longest candidate list explored
MaxDirs == 2

DirSamples ==
    { <<>>, <<"/", "a">>, <<"/", "a", "/">>, <<"b">>, <<"C:", "\\", "a">> }

HeaderSamples ==
    { <<"libavcodec", "/", "avcodec.h">>, <<"x.h">>, <<"/", "abs.h">> }

SeqsUpTo(S, n) == UNION { [1..k -> S] : k \in 0..n }

\* one call search_include(&l_dirs, l_header)
SearchInclude ==
    /\ ~l_result.done
    /\ l_result' = [done |-> TRUE, path |-> search_include(l_dirs, l_header)]
    /\ UNCHANGED <<l_dirs, l_header, macro_vars, host_vars, run_vars>>

----------------------------------------------------------------------------
(* The host *)

\* env::var("OUT_DIR"), when set
OutDir == IF os = "windows" THEN <<"C:", "\\", "out">> ELSE <<"/", "out">>

\* output().join("bindings.rs")
BindingsRs == join(OutDir, <<"bindings.rs">>)

ffmpeg_prefix == join(OutDir, <<"ffmpeg">>)
FfmpegZip == join(OutDir, <<"ffmpeg.zip">>)
media_sdk_prefix == join(OutDir, <<"media-sdk">>)
media_sdk_include_prefix == join(media_sdk_prefix, <<".", "/", "api", "/", "include">>)

\* a file of the build-output directory that build.rs never names
Bystander == join(OutDir, <<"other.txt">>)

DotInclude == <<".", "/", "include">>
DotLib == <<".", "/", "lib">>

AvcodecH == <<"libavcodec", "/", "avcodec.h">>
ChannelLayoutH == <<"libavutil", "/", "channel_layout.h">>
PostprocessH == <<"libpostproc", "/", "postprocess.h">>
HwcontextQsvH == <<"libavutil", "/", "hwcontext_qsv.h">>
HwcontextD3d11vaH == <<"libavutil", "/", "hwcontext_d3d11va.h">>
HwcontextDrmH == <<"libavutil", "/", "hwcontext_drm.h">>

\* the header whose presence varies from directory to directory
VarHeaders == {AvcodecH}

HeadersUnder(dir) == { join(dir, h) : h \in VarHeaders }

\* what `brew --prefix ffmpeg@6` prints
BrewStdout == { <<"/", "opt", "/", "ffmpeg@6", "\n">> }

BrewPrefix(out) == SelectSeq(out, LAMBDA c : c # "\n")

UsrIncludeDir == <<"/", "usr", "/", "include">>
UsrLocalIncludeDir == <<"/", "usr", "/", "local", "/", "include">>
UsrLibDir == <<"/", "usr", "/", "lib">>
UsrLocalLibDir == <<"/", "usr", "/", "local", "/", "lib">>

\* the directories outside the build-output directory that may hold headers
SystemIncludeDirs ==
    IF os = "macos" THEN { join(BrewPrefix(o), DotInclude) : o \in BrewStdout }
    ELSE IF os = "linux" THEN {UsrIncludeDir, UsrLocalIncludeDir}
    ELSE {}

\* fsx with every path of ps holding content c
WriteAll(fsx, ps, c) ==
    [p \in DOMAIN fsx \cup ps |-> IF p \in ps THEN c ELSE fsx[p]]

Empty == [p \in {} |-> 0]

\* the filesystems a first run may find: any content of the build-output
\* directory and of the system include directories, a file only under a
\* directory that exists
InitialFs ==
    { WriteAll(Empty, top \cup fh \cup sh \cup yh, 0) :
        top \in SUBSET {FfmpegZip, ffmpeg_prefix, media_sdk_prefix, BindingsRs, Bystander},
        fh \in SUBSET HeadersUnder(join(ffmpeg_prefix, DotInclude)),
        sh \in SUBSET HeadersUnder(media_sdk_include_prefix),
        yh \in SUBSET UNION { HeadersUnder(d) : d \in SystemIncludeDirs } }

Consistent(fsx) ==
    /\ (HeadersUnder(join(ffmpeg_prefix, DotInclude)) \cap DOMAIN fsx # {}
            => ffmpeg_prefix \in DOMAIN fsx)
    /\ (HeadersUnder(media_sdk_include_prefix) \cap DOMAIN fsx # {}
            => media_sdk_prefix \in DOMAIN fsx)

----------------------------------------------------------------------------
(* exec: the results a command can give, each with the filesystem it leaves *)

Ok(out, fsx) == [ok |-> TRUE, out |-> out, fs |-> fsx]
\* stderr is one line
Err(msg, fsx) == [ok |-> FALSE, out |-> <<msg>>, fs |-> fsx]

\* exec(command, &out_dir): Ok(stdout) on a zero exit status, else Err(stderr).
\* A command that fails may leave what it had written before it failed.
exec(command) ==
    IF command = "brew" THEN
        { Ok(o, fs) : o \in BrewStdout } \cup { Err("brew", fs) }
    ELSE IF command \in {"Invoke-WebRequest debug", "Invoke-WebRequest release"} THEN
        { Ok(<<>>, WriteAll(fs, {FfmpegZip}, run)),
          Err("Invoke-WebRequest", fs),
          Err("Invoke-WebRequest", WriteAll(fs, {FfmpegZip}, run)) }
    ELSE IF command = "Expand-Archive" THEN
        { Ok(<<>>, WriteAll(fs, {ffmpeg_prefix} \cup hs, run)) :
            hs \in SUBSET HeadersUnder(join(ffmpeg_prefix, DotInclude)) }
        \cup { Err("Expand-Archive", fs),
               Err("Expand-Archive", WriteAll(fs, {ffmpeg_prefix}, run)) }
    ELSE
        { Ok(<<>>, WriteAll(fs, {media_sdk_prefix} \cup hs, run)) :
            hs \in SUBSET HeadersUnder(media_sdk_include_prefix) }
        \cup { Err("git clone", fs),
               Err("git clone", WriteAll(fs, {media_sdk_prefix}, run)) }

----------------------------------------------------------------------------
(* pkg-config *)

LIBRARYS ==
    << <<"avcodec", <<6, 0>> >>, <<"avdevice", <<6, 0>> >>,
       <<"avfilter", <<6, 0>> >>, <<"avformat", <<6, 0>> >>,
       <<"avutil", <<6, 0>> >>, <<"postproc", <<6, 0>> >>,
       <<"swresample", <<4, 7>> >>, <<"swscale", <<6, 0>> >> >>

LibNames == { LIBRARYS[i][1] : i \in 1..Len(LIBRARYS) }

\* installed >= wanted, on <<major, minor>>
VersionGe(installed, wanted) ==
    \/ installed[1] > wanted[1]
    \/ installed[1] = wanted[1] /\ installed[2] >= wanted[2]

NotInstalled ==
    [installed |-> FALSE, version |-> <<0, 0>>,
     include_paths |-> <<>>, link_paths |-> <<>>]

\* a package below every minimum but swresample's, in the system directories
Installed47 ==
    [installed |-> TRUE, version |-> <<4, 7>>,
     include_paths |-> <<UsrIncludeDir>>, link_paths |-> <<UsrLibDir>>]

\* a package at the minimum, with two include directories
Installed60 ==
    [installed |-> TRUE, version |-> <<6, 0>>,
     include_paths |-> <<UsrLocalIncludeDir, UsrIncludeDir>>,
     link_paths |-> <<UsrLocalLibDir>>]

PkgChoices == {NotInstalled, Installed47, Installed60}

\* pkg_config::Config::new().atleast_version(version).probe("lib" + name)
probe(name, version) ==
    LET e == pkgdb["lib" \o name]
    IN  IF e.installed /\ VersionGe(e.version, version)
        THEN [ok |-> TRUE, include_paths |-> e.include_paths,
              link_paths |-> e.link_paths, err |-> "none"]
        ELSE [ok |-> FALSE, include_paths |-> <<>>, link_paths |-> <<>>,
              err |-> "probe lib" \o name]

PkgNames == { "lib" \o n : n \in LibNames }

----------------------------------------------------------------------------
(* main *)

\* the number of runs of the build script explored
MaxRuns == 2

\* env::var("DEBUG")
DebugLabels == {"unset", "true", "false"}

Frameworks ==
    <<"AppKit", "AudioToolbox", "AVFoundation", "CoreFoundation", "CoreGraphics",
      "CoreMedia", "CoreServices", "CoreVideo", "Foundation", "OpenCL", "OpenGL",
      "QTKit", "QuartzCore", "Security", "VideoDecodeAcceleration", "VideoToolbox">>

\* the headers handed to search_include: the first, one of the middle and the
\* last of the fixed list, then the ones of the target OS
LocatedHeaders ==
    <<AvcodecH, ChannelLayoutH, PostprocessH>>
    \o (IF os = "windows" THEN <<HwcontextQsvH, HwcontextD3d11vaH>>
        ELSE IF os = "linux" THEN <<HwcontextDrmH>>
        ELSE <<>>)

\* what the filesystem held at `path` when the code tested it
AtCheck(path) == IF path \in DOMAIN fs THEN "present" ELSE "absent"

\* the step `step` returned Err or panicked: main returns, nothing else runs
Fail(step) ==
    /\ pc' = "failed"
    /\ err' = step

\* main, lines 134-137: the environment is read
Main_start ==
    /\ pc \in {"idle", "done", "failed"}
    /\ run < MaxRuns
    /\ run' = run + 1
    /\ fs_at_start' = fs
    /\ includes' = <<>>
    /\ librarys' = <<>>
    /\ include_prefix' = <<>>
    /\ lib_prefix' = <<>>
    /\ probe_i' = 1
    /\ stdout' = <<>>
    /\ clang_includes' = <<>>
    /\ headers' = <<>>
    /\ done_steps' = {}
    /\ execlog' = <<>>
    /\ media_sdk_at_check' = "unchecked"
    /\ ffmpeg_at_check' = "unchecked"
    /\ \/ Fail("OUT_DIR") /\ UNCHANGED is_debug
       \/ \E label \in DebugLabels :
            /\ is_debug' = IF label = "unset" THEN TRUE ELSE label = "true"
            /\ pc' = "find_ffmpeg_prefix"
            /\ err' = "none"
    /\ UNCHANGED <<hist, host_vars, macro_vars, locate_vars>>

\* find_ffmpeg_prefix returned Ok((inc, lib)) to main
Resolved(inc, lib) ==
    /\ include_prefix' = inc
    /\ lib_prefix' = lib
    /\ pc' = "resolved"
    /\ done_steps' = done_steps \cup {"resolve"}
    /\ UNCHANGED err

\* find_ffmpeg_prefix, macOS: brew --prefix
Find_macos ==
    /\ pc = "find_ffmpeg_prefix"
    /\ os = "macos"
    /\ execlog' = Append(execlog, "brew")
    /\ \E r \in exec("brew") :
         /\ fs' = r.fs
         /\ IF r.ok
            THEN Resolved(<<join(BrewPrefix(r.out), DotInclude)>>,
                          <<join(BrewPrefix(r.out), DotLib)>>)
            ELSE Fail(r.out[1]) /\ UNCHANGED <<include_prefix, lib_prefix, done_steps>>
    /\ UNCHANGED <<run, is_debug, includes, librarys, probe_i, stdout, clang_includes,
                   headers, fs_at_start, media_sdk_at_check, ffmpeg_at_check, hist,
                   os, pkgdb, macro_vars, locate_vars>>

\* find_ffmpeg_prefix, Windows, <out_dir>/ffmpeg present: nothing is fetched
Find_windows_present ==
    /\ pc = "find_ffmpeg_prefix"
    /\ os = "windows"
    /\ is_exsit(ffmpeg_prefix)
    /\ ffmpeg_at_check' = AtCheck(ffmpeg_prefix)
    /\ Resolved(<<join(ffmpeg_prefix, DotInclude)>>, <<join(ffmpeg_prefix, DotLib)>>)
    /\ hist' = [hist EXCEPT !.archive_ok = run]
    /\ UNCHANGED <<run, is_debug, includes, librarys, probe_i, stdout, clang_includes,
                   headers, execlog, fs_at_start, media_sdk_at_check,
                   host_vars, macro_vars, locate_vars>>

\* find_ffmpeg_prefix, Windows, <out_dir>/ffmpeg absent: the archive is downloaded
Find_windows_download ==
    /\ pc = "find_ffmpeg_prefix"
    /\ os = "windows"
    /\ ~is_exsit(ffmpeg_prefix)
    /\ ffmpeg_at_check' = AtCheck(ffmpeg_prefix)
    /\ LET command == IF is_debug THEN "Invoke-WebRequest debug"
                      ELSE "Invoke-WebRequest release"
       IN  /\ execlog' = Append(execlog, command)
           /\ \E r \in exec(command) :
                /\ fs' = r.fs
                /\ IF r.ok THEN pc' = "extract" /\ UNCHANGED err
                   ELSE Fail(r.out[1])
    /\ UNCHANGED <<run, is_debug, includes, librarys, include_prefix, lib_prefix,
                   probe_i, stdout, clang_includes, headers, done_steps, fs_at_start,
                   media_sdk_at_check, hist, os, pkgdb, macro_vars, locate_vars>>

\* find_ffmpeg_prefix, Windows: the archive is extracted in place
Find_windows_extract ==
    /\ pc = "extract"
    /\ execlog' = Append(execlog, "Expand-Archive")
    /\ \E r \in exec("Expand-Archive") :
         /\ fs' = r.fs
         /\ IF r.ok
            THEN /\ Resolved(<<join(ffmpeg_prefix, DotInclude)>>,
                             <<join(ffmpeg_prefix, DotLib)>>)
                 /\ hist' = [hist EXCEPT !.archive_ok = run]
            ELSE /\ Fail(r.out[1])
                 /\ UNCHANGED <<include_prefix, lib_prefix, done_steps, hist>>
    /\ UNCHANGED <<run, is_debug, includes, librarys, probe_i, stdout, clang_includes,
                   headers, fs_at_start, media_sdk_at_check, ffmpeg_at_check,
                   os, pkgdb, macro_vars, locate_vars>>

\* a plausible slip: a library whose probe fails is skipped
Find_probe_skip ==
    /\ pc = "find_ffmpeg_prefix"
    /\ os = "linux"
    /\ probe_i <= Len(LIBRARYS)
    /\ LET lib == probe(LIBRARYS[probe_i][1], LIBRARYS[probe_i][2])
       IN  /\ librarys' = librarys \o lib.link_paths
           /\ includes' = includes \o lib.include_paths
           /\ probe_i' = probe_i + 1
           /\ IF probe_i = Len(LIBRARYS)
              THEN Resolved(includes', librarys')
              ELSE UNCHANGED <<pc, include_prefix, lib_prefix, done_steps, err>>
    /\ UNCHANGED <<run, is_debug, stdout, clang_includes, headers, execlog,
                   fs_at_start, media_sdk_at_check, ffmpeg_at_check, hist,
                   host_vars, macro_vars, locate_vars>>

\* find_ffmpeg_prefix, other OSes: one turn of the loop over LIBRARYS, and
\* after the last one the return of (includes, librarys)
Find_probe ==
    /\ pc = "find_ffmpeg_prefix"
    /\ os = "linux"
    /\ probe_i <= Len(LIBRARYS)
    /\ LET lib == probe(LIBRARYS[probe_i][1], LIBRARYS[probe_i][2])
       IN  IF lib.ok
           THEN /\ librarys' = librarys \o lib.link_paths
                /\ includes' = includes \o lib.include_paths
                /\ probe_i' = probe_i + 1
                /\ IF probe_i = Len(LIBRARYS)
                   THEN Resolved(includes', librarys')
                   ELSE UNCHANGED <<pc, include_prefix, lib_prefix, done_steps, err>>
           ELSE /\ Fail(lib.err)
                /\ UNCHANGED <<librarys, includes, probe_i, include_prefix,
                               lib_prefix, done_steps>>
    /\ UNCHANGED <<run, is_debug, stdout, clang_includes, headers, execlog,
                   fs_at_start, media_sdk_at_check, ffmpeg_at_check, hist,
                   host_vars, macro_vars, locate_vars>>

\* main, lines 140-169: the link directives are printed
Emit_link_directives ==
    /\ pc = "resolved"
    /\ stdout' =
         [i \in 1..Len(lib_prefix) |-> <<"cargo:rustc-link-search=all=", lib_prefix[i]>>]
         \o [i \in 1..Len(LIBRARYS) |-> <<"cargo:rustc-link-lib=", LIBRARYS[i][1]>>]
         \o (IF os = "macos"
             THEN [i \in 1..Len(Frameworks) |->
                      <<"cargo:rustc-link-lib=framework=", Frameworks[i]>>]
             ELSE <<>>)
    /\ pc' = "media_sdk"
    /\ UNCHANGED <<run, is_debug, includes, librarys, include_prefix, lib_prefix,
                   probe_i, clang_includes, headers, err, done_steps, execlog,
                   fs_at_start, media_sdk_at_check, ffmpeg_at_check, hist,
                   host_vars, macro_vars, locate_vars>>

\* main, lines 171-172: <out_dir>/media-sdk is there, nothing is cloned
Fetch_present ==
    /\ pc = "media_sdk"
    /\ is_exsit(media_sdk_prefix)
    /\ media_sdk_at_check' = AtCheck(media_sdk_prefix)
    /\ pc' = "headers"
    /\ done_steps' = done_steps \cup {"fetch"}
    /\ UNCHANGED <<run, is_debug, includes, librarys, include_prefix, lib_prefix,
                   probe_i, stdout, clang_includes, headers, err, execlog,
                   fs_at_start, ffmpeg_at_check, hist,
                   host_vars, macro_vars, locate_vars>>

\* a plausible slip: the clone runs whether or not the directory is there
Fetch_clone_always ==
    /\ pc = "media_sdk"
    /\ media_sdk_at_check' = AtCheck(media_sdk_prefix)
    /\ execlog' = Append(execlog, "git clone")
    /\ \E r \in exec("git clone") :
         /\ fs' = r.fs
         /\ hist' = IF media_sdk_prefix \in DOMAIN r.fs /\ hist.sdk_first = -1
                    THEN [hist EXCEPT !.sdk_first = run] ELSE hist
         /\ IF r.ok
            THEN pc' = "headers" /\ done_steps' = done_steps \cup {"fetch"}
                 /\ UNCHANGED err
            ELSE Fail(r.out[1]) /\ UNCHANGED done_steps
    /\ UNCHANGED <<run, is_debug, includes, librarys, include_prefix, lib_prefix,
                   probe_i, stdout, clang_includes, headers, fs_at_start,
                   ffmpeg_at_check, os, pkgdb, macro_vars, locate_vars>>

\* main, lines 172-177: <out_dir>/media-sdk is not there, the SDK is cloned
Fetch_clone ==
    /\ pc = "media_sdk"
    /\ ~is_exsit(media_sdk_prefix)
    /\ media_sdk_at_check' = AtCheck(media_sdk_prefix)
    /\ execlog' = Append(execlog, "git clone")
    /\ \E r \in exec("git clone") :
         /\ fs' = r.fs
         /\ hist' = IF media_sdk_prefix \in DOMAIN r.fs /\ hist.sdk_first = -1
                    THEN [hist EXCEPT !.sdk_first = run] ELSE hist
         /\ IF r.ok
            THEN pc' = "headers" /\ done_steps' = done_steps \cup {"fetch"}
                 /\ UNCHANGED err
            ELSE Fail(r.out[1]) /\ UNCHANGED done_steps
    /\ UNCHANGED <<run, is_debug, includes, librarys, include_prefix, lib_prefix,
                   probe_i, stdout, clang_includes, headers, fs_at_start,
                   ffmpeg_at_check, os, pkgdb, macro_vars, locate_vars>>

\* a plausible slip: the SDK include directory is put first
Build_headers_sdk_first ==
    /\ pc = "headers"
    /\ include_prefix' = <<media_sdk_include_prefix>> \o include_prefix
    /\ clang_includes' =
         [i \in 1..Len(include_prefix') |-> <<"-I">> \o include_prefix'[i]]
    /\ headers' =
         [i \in 1..Len(LocatedHeaders) |->
             search_include(include_prefix', LocatedHeaders[i])]
    /\ pc' = "generate"
    /\ UNCHANGED <<run, is_debug, includes, librarys, lib_prefix, probe_i, stdout,
                   err, done_steps, execlog, fs_at_start, media_sdk_at_check,
                   ffmpeg_at_check, hist, host_vars, macro_vars, locate_vars>>

\* main, lines 179-378: the SDK include directory is appended, the -I arguments
\* are formed and each header is located
Build_headers ==
    /\ pc = "headers"
    /\ include_prefix' = include_prefix \o <<media_sdk_include_prefix>>
    /\ clang_includes' =
         [i \in 1..Len(include_prefix') |-> <<"-I">> \o include_prefix'[i]]
    /\ headers' =
         [i \in 1..Len(LocatedHeaders) |->
             search_include(include_prefix', LocatedHeaders[i])]
    /\ pc' = "generate"
    /\ UNCHANGED <<run, is_debug, includes, librarys, lib_prefix, probe_i, stdout,
                   err, done_steps, execlog, fs_at_start, media_sdk_at_check,
                   ffmpeg_at_check, hist, host_vars, macro_vars, locate_vars>>

\* a plausible slip: a failed translation is not noticed
Generate_unchecked ==
    /\ pc = "generate"
    /\ \/ pc' = "write" /\ done_steps' = done_steps \cup {"translate"}
          /\ UNCHANGED err
       \/ pc' = "write" /\ err' = "Unable to generate bindings"
          /\ UNCHANGED done_steps
    /\ UNCHANGED <<run, is_debug, includes, librarys, include_prefix, lib_prefix,
                   probe_i, stdout, clang_includes, headers, execlog, fs_at_start,
                   media_sdk_at_check, ffmpeg_at_check, hist,
                   host_vars, macro_vars, locate_vars>>

\* main, lines 381-384: builder.generate().expect(..)
Generate ==
    /\ pc = "generate"
    /\ \/ pc' = "write" /\ done_steps' = done_steps \cup {"translate"}
          /\ UNCHANGED err
       \/ Fail("Unable to generate bindings") /\ UNCHANGED done_steps
    /\ UNCHANGED <<run, is_debug, includes, librarys, include_prefix, lib_prefix,
                   probe_i, stdout, clang_includes, headers, execlog, fs_at_start,
                   media_sdk_at_check, ffmpeg_at_check, hist,
                   host_vars, macro_vars, locate_vars>>

\* a plausible slip: the bindings are written beside a scratch copy
Write_bindings_scratch ==
    /\ pc = "write"
    /\ \/ /\ fs' = WriteAll(fs, {BindingsRs, Bystander}, run)
          /\ pc' = "done"
          /\ done_steps' = done_steps \cup {"write"}
          /\ UNCHANGED err
       \/ Fail("Couldn't write bindings!") /\ UNCHANGED <<fs, done_steps>>
    /\ UNCHANGED <<run, is_debug, includes, librarys, include_prefix, lib_prefix,
                   probe_i, stdout, clang_includes, headers, execlog, fs_at_start,
                   media_sdk_at_check, ffmpeg_at_check, hist, os, pkgdb,
                   macro_vars, locate_vars>>

\* main, lines 387-391: bindings.write_to_file(..).expect(..), the file holding
\* the bindings when the call returns Ok and left as it was when it returns Err
Write_bindings ==
    /\ pc = "write"
    /\ \/ /\ fs' = WriteAll(fs, {BindingsRs}, run)
          /\ pc' = "done"
          /\ done_steps' = done_steps \cup {"write"}
          /\ UNCHANGED err
       \/ Fail("Couldn't write bindings!") /\ UNCHANGED <<fs, done_steps>>
    /\ UNCHANGED <<run, is_debug, includes, librarys, include_prefix, lib_prefix,
                   probe_i, stdout, clang_includes, headers, execlog, fs_at_start,
                   media_sdk_at_check, ffmpeg_at_check, hist, os, pkgdb,
                   macro_vars, locate_vars>>

----------------------------------------------------------------------------
(* Specifications *)

IdleRun ==
    /\ pc = "idle"
    /\ run = 0
    /\ is_debug = TRUE
    /\ includes = <<>>
    /\ librarys = <<>>
    /\ include_prefix = <<>>
    /\ lib_prefix = <<>>
    /\ probe_i = 1
    /\ stdout = <<>>
    /\ clang_includes = <<>>
    /\ headers = <<>>
    /\ err = "none"
    /\ done_steps = {}
    /\ execlog = <<>>
    /\ media_sdk_at_check = "unchecked"
    /\ ffmpeg_at_check = "unchecked"

IdleMacro == m_name = <<>> /\ m_value = <<0, 0, 0, 0>> /\ m_kind = "idle"

IdleLocate == l_dirs = <<>> /\ l_header = <<>> /\ l_result = [done |-> TRUE, path |-> <<>>]

AllInstalled == [n \in PkgNames |-> Installed60]

\* the pkg-config databases of the whole-run model: every package installed at
\* its minimum but the first and the seventh, which take every choice
PkgDbSamples ==
    { [AllInstalled EXCEPT !["libavcodec"] = a, !["libswresample"] = b] :
        a \in PkgChoices, b \in PkgChoices }

\* the build script is about to be run on some host
Init ==
    /\ os \in {"macos", "windows", "linux"}
    /\ fs \in { f \in InitialFs : Consistent(f) }
    /\ pkgdb \in (IF os = "linux" THEN PkgDbSamples ELSE {AllInstalled})
    /\ fs_at_start = fs
    /\ hist = [sdk_first |-> IF media_sdk_prefix \in DOMAIN fs THEN 0 ELSE -1,
               archive_ok |-> 0]
    /\ IdleRun
    /\ IdleMacro
    /\ IdleLocate

Next ==
    \/ Main_start
    \/ Find_macos
    \/ Find_windows_present
    \/ Find_windows_download
    \/ Find_windows_extract
    \/ Find_probe
    \/ Emit_link_directives
    \/ Fetch_present
    \/ Fetch_clone
    \/ Build_headers
    \/ Generate
    \/ Write_bindings

Spec == Init /\ [][Next]_vars

\* Callbacks::int_macro on its own: any sampled name with any sampled value
InitMacro ==
    /\ m_name \in MacroNames
    /\ m_value \in I64Samples
    /\ m_kind = "pending"
    /\ os = "linux"
    /\ fs = Empty
    /\ pkgdb = AllInstalled
    /\ fs_at_start = fs
    /\ hist = [sdk_first |-> -1, archive_ok |-> 0]
    /\ IdleRun
    /\ IdleLocate

NextMacro == IntMacro

SpecMacro == InitMacro /\ [][NextMacro]_vars

\* search_include on its own: any candidate list, header and filesystem
InitLocate ==
    /\ os \in {"macos", "windows", "linux"}
    /\ l_dirs \in SeqsUpTo(DirSamples, MaxDirs)
    /\ l_header \in HeaderSamples
    /\ l_result = [done |-> FALSE, path |-> <<>>]
    /\ fs \in { WriteAll(Empty, ps, 0) :
                 ps \in SUBSET ({ join(d, l_header) : d \in DirSamples }
                                \cup {UsrInclude(l_header)}) }
    /\ pkgdb = AllInstalled
    /\ fs_at_start = fs
    /\ hist = [sdk_first |-> -1, archive_ok |-> 0]
    /\ IdleRun
    /\ IdleMacro

NextLocate == SearchInclude

SpecLocate == InitLocate /\ [][NextLocate]_vars

\* find_ffmpeg_prefix by system probe on its own: any pkg-config database
InitProbe ==
    /\ os = "linux"
    /\ pkgdb \in [PkgNames -> PkgChoices]
    /\ fs = Empty
    /\ fs_at_start = fs
    /\ hist = [sdk_first |-> -1, archive_ok |-> 0]
    /\ IdleRun
    /\ IdleMacro
    /\ IdleLocate

NextProbe ==
    \/ Main_start
    \/ Find_probe

SpecProbe == InitProbe /\ [][NextProbe]_vars

----------------------------------------------------------------------------
(* Properties *)

InLog(command) == \E i \in 1..Len(execlog) : execlog[i] = command

\* the path holds at the end what it held when the run began
SameAsAtStart(p) ==
    /\ p \in DOMAIN fs <=> p \in DOMAIN fs_at_start
    /\ p \in DOMAIN fs => fs[p] = fs_at_start[p]

\* bindings.rs was written by the run in progress
WrittenThisRun == run >= 1 /\ BindingsRs \in DOMAIN fs /\ fs[BindingsRs] = run

\* C1: a run in which a step failed is a failed run that ran nothing after the
\* failed step and wrote no bindings.rs; bindings.rs is written only by a run
\* whose platform resolution, SDK fetch, translation and write all succeeded;
\* no command is run twice in a run.
C1_FailureAbortsRun ==
    /\ err # "none" <=> pc = "failed"
    /\ pc = "failed" => SameAsAtStart(BindingsRs)
    /\ WrittenThisRun =>
         /\ pc = "done"
         /\ {"resolve", "fetch", "translate", "write"} \subseteq done_steps
    /\ pc = "done" => WrittenThisRun
    /\ \A i, j \in 1..Len(execlog) : execlog[i] = execlog[j] => i = j

\* C1 witness: translation failed after the resolution and the fetch succeeded,
\* and the bindings.rs of an earlier build is still what it was
C1_Witness ==
    /\ pc = "failed"
    /\ err = "Unable to generate bindings"
    /\ {"resolve", "fetch"} \subseteq done_steps
    /\ BindingsRs \in DOMAIN fs
    /\ fs[BindingsRs] = 0

\* the version test of pkg-config, on the number major.minor
Satisfied(i) ==
    LET e == pkgdb["lib" \o LIBRARYS[i][1]]
        wanted == LIBRARYS[i][2]
    IN  e.installed /\ e.version[1] * 1000 + e.version[2] >= wanted[1] * 1000 + wanted[2]

RECURSIVE AllPaths(_, _)
\* the paths of field `which` of the first n libraries, in LIBRARYS order
AllPaths(which, n) ==
    IF n = 0 THEN <<>>
    ELSE AllPaths(which, n - 1)
         \o (IF which = "include" THEN pkgdb["lib" \o LIBRARYS[n][1]].include_paths
             ELSE pkgdb["lib" \o LIBRARYS[n][1]].link_paths)

Unsatisfied == { i \in 1..Len(LIBRARYS) : ~Satisfied(i) }

\* C2: once the system-probe resolution has returned: if some library is missing
\* or below its minimum, it failed with the probe error of the first such
\* library and main got no include path and no link path; if none is, main got
\* every include path and every link path of the 8 probes, in LIBRARYS order,
\* duplicates kept.
C2_ProbeAllOrNothing ==
    (/\ os = "linux"
     /\ \/ pc = "resolved"
        \/ pc = "failed" /\ err # "OUT_DIR" /\ "resolve" \notin done_steps) =>
        IF Unsatisfied # {}
        THEN LET first == CHOOSE i \in Unsatisfied : \A j \in Unsatisfied : i <= j
             IN  /\ pc = "failed"
                 /\ err = "probe lib" \o LIBRARYS[first][1]
                 /\ include_prefix = <<>>
                 /\ lib_prefix = <<>>
        ELSE /\ pc = "resolved"
             /\ include_prefix = AllPaths("include", Len(LIBRARYS))
             /\ lib_prefix = AllPaths("link", Len(LIBRARYS))

\* C2 witness: the resolution failed at a later library, after earlier probes
\* had given paths, and none of them was returned
C2_Witness ==
    /\ pc = "failed"
    /\ err = "probe libswresample"
    /\ Len(includes) > 0
    /\ include_prefix = <<>>
    /\ lib_prefix = <<>>

\* p is dir or lies under it
Under(p, dir) == starts_with(p, dir)

Changed == { p \in DOMAIN fs \cup DOMAIN fs_at_start : ~SameAsAtStart(p) }

\* C3 as stated: apart from bindings.rs, a run creates or changes nothing
\* under the build-output directory.
C3_OnlyArtifactPersisted ==
    \A p \in Changed : Under(p, OutDir) => p = BindingsRs

\* C3 amended: what a run creates or changes under the build-output directory
\* is bindings.rs, the media-sdk tree when media-sdk was absent at the start of
\* the run, and, on Windows when ffmpeg was absent at the start of the run,
\* ffmpeg.zip and the ffmpeg tree; nothing else is created or changed and
\* nothing is removed.
C3_PersistedState ==
    /\ DOMAIN fs_at_start \subseteq DOMAIN fs
    /\ \A p \in Changed :
         \/ p = BindingsRs
         \/ /\ Under(p, media_sdk_prefix)
            /\ media_sdk_prefix \notin DOMAIN fs_at_start
         \/ /\ os = "windows"
            /\ p = FfmpegZip \/ Under(p, ffmpeg_prefix)
            /\ ffmpeg_prefix \notin DOMAIN fs_at_start

\* C3 witness: a successful run that cloned the SDK, beside a file it left alone
C3_Witness ==
    /\ pc = "done"
    /\ media_sdk_prefix \in Changed
    /\ Bystander \in DOMAIN fs
    /\ BindingsRs \in Changed

\* C4: on Windows, when <out_dir>/ffmpeg was there at the test, the run runs
\* neither the download nor the extraction and, for either profile, main gets
\* the include and lib directories under it; and a run after one whose archive
\* resolution succeeded runs neither command.
C4_ArchiveIdempotent ==
    LET fetched == \/ InLog("Invoke-WebRequest debug")
                   \/ InLog("Invoke-WebRequest release")
                   \/ InLog("Expand-Archive")
    IN  /\ (os = "windows" /\ ffmpeg_at_check = "present") =>
              /\ ~fetched
              /\ pc # "extract"
              /\ lib_prefix = << <<"C:", "\\", "out", "\\", "ffmpeg", "\\", ".", "/", "lib">> >>
              /\ Len(include_prefix) >= 1
              /\ include_prefix[1] =
                   <<"C:", "\\", "out", "\\", "ffmpeg", "\\", ".", "/", "include">>
        /\ (hist.archive_ok # 0 /\ hist.archive_ok < run) => ~fetched

\* C4 witness: the second run, release profile, after a first run that
\* downloaded and extracted the archive
C4_Witness ==
    /\ os = "windows"
    /\ run = 2
    /\ ~is_debug
    /\ ffmpeg_prefix \in DOMAIN fs
    /\ fs[ffmpeg_prefix] = 1
    /\ ffmpeg_at_check = "present"
    /\ pc = "resolved"

\* C5: a run that ran the clone found <out_dir>/media-sdk absent at its test and
\* at its start, and no run later than the one in which the directory first
\* existed runs the clone.
C5_FetchIdempotent ==
    InLog("git clone") =>
        /\ media_sdk_at_check = "absent"
        /\ media_sdk_prefix \notin DOMAIN fs_at_start
        /\ hist.sdk_first = -1 \/ hist.sdk_first >= run

\* C5 witness: the second run goes past the fetch without a clone, the first
\* run having cloned the SDK
C5_Witness ==
    /\ run = 2
    /\ hist.sdk_first = 1
    /\ media_sdk_at_check = "present"
    /\ pc = "headers"
    /\ ~InLog("git clone")

\* the first candidate directory, in list order, under which the header exists
FirstHit(dirs, header) ==
    LET hits == { i \in 1..Len(dirs) : join(dirs[i], header) \in DOMAIN fs }
    IN  IF hits = {} THEN 0 ELSE CHOOSE i \in hits : \A j \in hits : i <= j

\* C6: search_include returns, for every candidate list, header and filesystem:
\* the join of the first candidate directory under which the header exists, and
\* "/usr/include/<header>", whether or not that exists, when there is none.
C6_LocatorFirstMatch ==
    l_result.done =>
        LET i == FirstHit(l_dirs, l_header)
        IN  /\ l_result.path # <<>>
            /\ i > 0 => l_result.path = join(l_dirs[i], l_header)
            /\ i = 0 => l_result.path = <<"/", "usr", "/", "include", "/">> \o l_header

\* C6 witness: two candidates hold the header at different paths, the first one
\* is returned
C6_Witness ==
    /\ l_result.done
    /\ Len(l_dirs) = 2
    /\ join(l_dirs[1], l_header) \in DOMAIN fs
    /\ join(l_dirs[2], l_header) \in DOMAIN fs
    /\ join(l_dirs[1], l_header) # join(l_dirs[2], l_header)
    /\ l_result.path = join(l_dirs[1], l_header)

\* C6 witness of the fallback: no candidate holds the header and the fallback
\* path does not exist
C6_FallbackWitness ==
    /\ l_result.done
    /\ Len(l_dirs) = 2
    /\ FirstHit(l_dirs, l_header) = 0
    /\ l_result.path \notin DOMAIN fs
    /\ l_result.path = <<"/", "usr", "/", "include", "/", "x.h">>

\* what the Platform Resolver returns on this host, written out
ResolverIncludes ==
    IF os = "macos"
    THEN << <<"/", "opt", "/", "ffmpeg@6", "/", ".", "/", "include">> >>
    ELSE IF os = "windows"
    THEN << <<"C:", "\\", "out", "\\", "ffmpeg", "\\", ".", "/", "include">> >>
    ELSE AllPaths("include", Len(LIBRARYS))

\* <out_dir>/media-sdk/./api/include, written out
SdkIncludeDir ==
    IF os = "windows"
    THEN <<"C:", "\\", "out", "\\", "media-sdk", "\\", ".", "/", "api", "/", "include">>
    ELSE <<"/", "out", "/", "media-sdk", "/", ".", "/", "api", "/", "include">>

\* C7: once the headers are located, the include paths are the resolver's, in
\* their order, then the SDK include directory last; the -I arguments are formed
\* from that sequence; and every located header is the one of the first
\* resolver directory that holds it, the SDK directory's only when no
\* resolver directory holds it.
C7_SdkIncludeLast ==
    headers # <<>> =>
        /\ include_prefix = ResolverIncludes \o <<SdkIncludeDir>>
        /\ clang_includes =
             [i \in 1..Len(include_prefix) |-> <<"-I">> \o include_prefix[i]]
        /\ Len(headers) = Len(LocatedHeaders)
        /\ \A k \in 1..Len(headers) :
             LET h == LocatedHeaders[k]
                 i == FirstHit(ResolverIncludes, h)
             IN  /\ i > 0 => headers[k] = join(ResolverIncludes[i], h)
                 /\ i = 0 =>
                      headers[k] = IF join(SdkIncludeDir, h) \in DOMAIN fs
                                   THEN join(SdkIncludeDir, h)
                                   ELSE <<"/", "usr", "/", "include", "/">> \o h

\* C7 witness: avcodec.h is in a resolver directory and in the SDK directory,
\* and the resolver's is the one located
C7_Witness ==
    /\ pc = "generate"
    /\ FirstHit(ResolverIncludes, AvcodecH) > 0
    /\ join(SdkIncludeDir, AvcodecH) \in DOMAIN fs
    /\ headers[1] = join(ResolverIncludes[FirstHit(ResolverIncludes, AvcodecH)], AvcodecH)
    /\ headers[1] # join(SdkIncludeDir, AvcodecH)

\* the value lies in [-2^31, 2^31 - 1]: the upper 33 bits are all equal
InSigned32(v) ==
    \/ v[1] = 0 /\ v[2] = 0 /\ v[3] < 32768
    \/ v[1] = 65535 /\ v[2] = 65535 /\ v[3] >= 32768

Decided == m_kind \notin {"idle", "pending"}

\* C8: a macro whose name starts with AV_CH_ is typed unsigned 64-bit whatever
\* its value.
C8_ChannelLayoutUnsigned64 ==
    (Decided /\ starts_with(m_name, <<"A", "V", "_", "C", "H", "_">>)) =>
        m_kind = "ULongLong"

\* C8 witness: AV_CH_LAYOUT_STEREO with value 3
C8_Witness ==
    /\ m_name = <<"A","V","_","C","H","_","L","A","Y","O","U","T","_",
                  "S","T","E","R","E","O">>
    /\ m_value = <<0, 0, 0, 3>>
    /\ m_kind = "ULongLong"

\* C9: a macro whose name starts with AV_CODEC_CAP_ or AV_CODEC_FLAG_ is typed
\* unsigned 32-bit when its value lies in the signed 32-bit range, and gets no
\* explicit type when it does not.
C9_CodecFlagsUnsigned32 ==
    (Decided /\ (\/ starts_with(m_name, <<"A","V","_","C","O","D","E","C","_","C","A","P","_">>)
                 \/ starts_with(m_name, <<"A","V","_","C","O","D","E","C","_","F","L","A","G","_">>))) =>
        m_kind = IF InSigned32(m_value) THEN "UInt" ELSE "None"

\* C9 witness: AV_CODEC_CAP_TRUNCATED with value 8
C9_Witness ==
    /\ m_name = <<"A","V","_","C","O","D","E","C","_","C","A","P","_",
                  "T","R","U","N","C","A","T","E","D">>
    /\ m_value = <<0, 0, 0, 8>>
    /\ m_kind = "UInt"

\* C9 witness outside the range: an AV_CODEC_FLAG_ name with value 2^31
C9_OutOfRangeWitness ==
    /\ starts_with(m_name, codec_flag_prefix)
    /\ m_value = <<0, 0, 32768, 0>>
    /\ m_kind = "None"

\* C10: AV_ERROR_MAX_STRING_SIZE is typed usize whatever its value.
C10_MaxStringSizeUsize ==
    (Decided /\ m_name = <<"A","V","_","E","R","R","O","R","_","M","A","X","_",
                          "S","T","R","I","N","G","_","S","I","Z","E">>) =>
        m_kind = "usize"

\* C10 witness: the macro with a value inside the signed 32-bit range
C10_Witness ==
    /\ m_name = error_max_size
    /\ m_value = <<0, 0, 0, 8>>
    /\ m_kind = "usize"

\* C10 witness outside the range: the macro with value -2^31 - 1
C10_OutOfRangeWitness ==
    /\ m_name = error_max_size
    /\ m_value = <<65535, 65535, 32767, 65535>>
    /\ m_kind = "usize"

====
